---------------------------- MODULE Spec2Model ----------------------------
(***************************************************************************)
(* A model of the process-documentation generator (src/app.py): the        *)
(* timestamp conversions, the key-moment editor and its commit, the frame  *)
(* batch, and the delimiter-driven Word assembler.                         *)
(*                                                                         *)
(* Texts are sequences of one-character strings, so that strip, split,     *)
(* int(), float() and the f-string formatting are computed as Python       *)
(* computes them.  A Python float is an integer number of milliseconds     *)
(* (PyNum), the float nan (PyNaN) or the value None (PyNone).              *)
(***************************************************************************)
EXTENDS Integers, Sequences, FiniteSets, TLC

VARIABLES
    \* ---- the timestamp conversions, applied to one text ----
    ts_text,      \* the timestamp text handed to timestamp_to_seconds
    ts_pc,        \* "input" | "parsed" | "formatted" | "reparsed"
    ts_secs,      \* timestamp_to_seconds(ts_text)
    ts_fmt,       \* seconds_to_timestamp(ts_secs)
    ts_back,      \* timestamp_to_seconds(ts_fmt.text)
    \* ---- one call of extract_all_frames ----
    b_moments,    \* the key_moments argument
    b_decoder,    \* what the decoder does at each moment (the environment)
    b_i,          \* moments the for loop has finished
    b_frames,     \* the local list frames
    b_calls,      \* the calls of extract_frame_at_timestamp: position, result
    b_open,       \* decoder handles opened and not released
    b_pc,         \* "idle" | "loop" | "returned" | "raised"
    \* ---- one call of create_word_document ----
    d_content,    \* the content argument: the generated text, one blob
    d_frames,     \* the frames argument
    d_lines,      \* the local list lines
    d_i,          \* the local index i (0-based, as in the code)
    d_counter,    \* the local screenshot_counter
    d_doc,        \* the blocks added to the document so far
    d_pc,         \* "idle" | "call" | "loop" | "returned" | "failed"
    \* ---- one browser session of main() ----
    session_state,  \* st.session_state: the record of its entries
    uploaded_file,  \* the file_uploader's value: "" (None) or a file id
    disk,           \* the temporary video copy on disk
    apply_message,  \* what the Apply Changes handler told the user in the
                    \* last run: "none" when it did not run
    \* ---- one call of sorted(edited_moments, key=...) ----
    sort_moments,   \* the list handed to sorted()
    sort_result,    \* the list it returned
    sort_pc         \* "idle" | "call" | "returned" | "raised"

timeVars == <<ts_text, ts_pc, ts_secs, ts_fmt, ts_back>>
batchVars == <<b_moments, b_decoder, b_i, b_frames, b_calls, b_open, b_pc>>
docVars == <<d_content, d_frames, d_lines, d_i, d_counter, d_doc, d_pc>>
appVars == <<session_state, uploaded_file, disk, apply_message>>
sortVars == <<sort_moments, sort_result, sort_pc>>
vars == <<timeVars, batchVars, docVars, appVars, sortVars>>

-----------------------------------------------------------------------------
(* Bounds *)

\* Largest number of ':'-separated parts of a generated timestamp text.
MaxParts == 4

\* Longest moment list handed to one call of extract_all_frames.
MaxBatch == 3

\* Most lines of a generated text and most frames handed to one call of
\* create_word_document.
MaxLines == 3
MaxDocFrames == 2

\* Most rows of the moment editor (key_moments plus pending additions).
MaxMoments == 3

\* Longest list handed to one call of sorted().
MaxSort == 7

-----------------------------------------------------------------------------
(* Python values *)

\* A float is kept in milliseconds, the unit of cap.set(CAP_PROP_POS_MSEC).
Milli == 1000

PyNone == [kind |-> "None", v |-> 0]
PyNaN == [kind |-> "nan", v |-> 0]
PyNum(n) == [kind |-> "num", v |-> n]

-----------------------------------------------------------------------------
(* str methods *)

Digits == {"0", "1", "2", "3", "4", "5", "6", "7", "8", "9"}

DigitVal(c) ==
    CASE c = "0" -> 0 [] c = "1" -> 1 [] c = "2" -> 2 [] c = "3" -> 3
      [] c = "4" -> 4 [] c = "5" -> 5 [] c = "6" -> 6 [] c = "7" -> 7
      [] c = "8" -> 8 [] c = "9" -> 9

DigitChar(d) ==
    CASE d = 0 -> "0" [] d = 1 -> "1" [] d = 2 -> "2" [] d = 3 -> "3"
      [] d = 4 -> "4" [] d = 5 -> "5" [] d = 6 -> "6" [] d = 7 -> "7"
      [] d = 8 -> "8" [] d = 9 -> "9"

Whitespace == {" ", "\n", "\r", "\t"}

RECURSIVE LStrip(_)
LStrip(s) ==
    IF s # <<>> /\ Head(s) \in Whitespace THEN LStrip(Tail(s)) ELSE s

RECURSIVE RStrip(_)
RStrip(s) ==
    IF s # <<>> /\ s[Len(s)] \in Whitespace
    THEN RStrip(SubSeq(s, 1, Len(s) - 1))
    ELSE s

\* str.strip()
Strip(s) == RStrip(LStrip(s))

\* str.split(sep) for a one-character separator: always at least one part.
RECURSIVE SplitFrom(_, _, _)
SplitFrom(s, sep, cur) ==
    IF s = <<>> THEN <<cur>>
    ELSE IF Head(s) = sep THEN <<cur>> \o SplitFrom(Tail(s), sep, <<>>)
    ELSE SplitFrom(Tail(s), sep, Append(cur, Head(s)))

Split(s, sep) == SplitFrom(s, sep, <<>>)

\* str.startswith(prefix)
StartsWith(s, prefix) ==
    /\ Len(s) >= Len(prefix)
    /\ SubSeq(s, 1, Len(prefix)) = prefix

\* s[n:]
SliceFrom(s, n) == SubSeq(s, n + 1, Len(s))

AllDigits(s) == \A k \in 1..Len(s) : s[k] \in Digits

RECURSIVE DigitsVal(_)
DigitsVal(s) ==
    IF s = <<>> THEN 0
    ELSE 10 * DigitsVal(SubSeq(s, 1, Len(s) - 1)) + DigitVal(s[Len(s)])

\* int(s): surrounding whitespace is ignored; anything but a non-empty run of
\* digits raises ValueError (ok = FALSE).  Signs and '_' are outside the
\* modelled alphabet.
ParseInt(s) ==
    LET t == Strip(s) IN
    IF t # <<>> /\ AllDigits(t)
    THEN [ok |-> TRUE, v |-> DigitsVal(t)]
    ELSE [ok |-> FALSE, v |-> 0]

\* The first Milli-worth (three) fraction digits of a digit run, as milliseconds.
FracMillis(f) ==
    LET d(k) == IF k <= Len(f) THEN DigitVal(f[k]) ELSE 0
    IN  100 * d(1) + 10 * d(2) + d(3)

\* float(s): surrounding whitespace is ignored; "nan" is the float nan;
\* digits, digits '.' digits, '.' digits and digits '.' are numbers; anything
\* else raises ValueError (ok = FALSE).  Exponents, signs, "inf" and '_' are
\* outside the modelled alphabet.
ParseFloat(s) ==
    LET t == Strip(s)
        p == Split(t, ".")
    IN  IF t = <<"n", "a", "n">>
        THEN [ok |-> TRUE, val |-> PyNaN]
        ELSE IF Len(p) = 1 /\ t # <<>> /\ AllDigits(t)
        THEN [ok |-> TRUE, val |-> PyNum(Milli * DigitsVal(t))]
        ELSE IF /\ Len(p) = 2
                /\ AllDigits(p[1]) /\ AllDigits(p[2])
                /\ Len(p[1]) + Len(p[2]) > 0
        THEN [ok |-> TRUE,
              val |-> PyNum(Milli * DigitsVal(p[1]) + FracMillis(p[2]))]
        ELSE [ok |-> FALSE, val |-> PyNone]

\* str(n) for n >= 0
RECURSIVE IntToStr(_)
IntToStr(n) ==
    IF n < 10 THEN <<DigitChar(n)>>
    ELSE Append(IntToStr(n \div 10), DigitChar(n % 10))

\* f"{n:02d}" for n >= 0
Pad2(n) == IF n < 10 THEN <<"0">> \o IntToStr(n) ELSE IntToStr(n)

-----------------------------------------------------------------------------
(* timestamp_to_seconds, seconds_to_timestamp *)

\* Mutant: the minutes are added without the factor 60.
SecondsOfMinutesUnscaled(hasHours, h, m, s) ==
    LET ph == ParseInt(h)
        pm == ParseInt(m)
        ps == ParseFloat(s)
    IN  IF (hasHours /\ ~ph.ok) \/ ~pm.ok \/ ~ps.ok
        THEN PyNum(0)
        ELSE IF ps.val.kind = "nan"
        THEN PyNaN
        ELSE PyNum((IF hasHours THEN ph.v * 3600 * Milli ELSE 0)
                   + pm.v * Milli + ps.val.v)

\* int(h) * 3600 + int(m) * 60 + float(s), inside try / except: return 0.
\* hasHours = FALSE is the two-part branch (h is then unused).
SecondsOf(hasHours, h, m, s) ==
    LET ph == ParseInt(h)
        pm == ParseInt(m)
        ps == ParseFloat(s)
    IN  IF (hasHours /\ ~ph.ok) \/ ~pm.ok \/ ~ps.ok
        THEN PyNum(0)                       \* ValueError -> except: return 0
        ELSE IF ps.val.kind = "nan"
        THEN PyNaN                          \* int + nan = nan
        ELSE PyNum((IF hasHours THEN ph.v * 3600 * Milli ELSE 0)
                   + pm.v * 60 * Milli + ps.val.v)

timestamp_to_seconds(timestamp_str) ==
    LET parts == Split(Strip(timestamp_str), ":") IN
    IF Len(parts) = 2
    THEN SecondsOf(FALSE, <<>>, parts[1], parts[2])
    ELSE IF Len(parts) = 3
    THEN SecondsOf(TRUE, parts[1], parts[2], parts[3])
    ELSE PyNone                             \* no branch taken: falls off the end

\* Mutant: the seconds field is not reduced modulo 60.
seconds_to_timestamp_no_modulo(seconds) ==
    IF seconds.kind # "num"
    THEN [raised |-> TRUE, text |-> <<>>]
    ELSE LET mins == seconds.v \div (60 * Milli)
             secs == seconds.v \div Milli
         IN  [raised |-> FALSE,
              text |-> IntToStr(mins) \o <<":">> \o Pad2(secs)]

\* int(seconds // 60), int(seconds % 60), f"{mins}:{secs:02d}".
\* None raises TypeError and nan raises ValueError (raised = TRUE).
seconds_to_timestamp(seconds) ==
    IF seconds.kind # "num"
    THEN [raised |-> TRUE, text |-> <<>>]
    ELSE LET mins == seconds.v \div (60 * Milli)
             secs == (seconds.v % (60 * Milli)) \div Milli
         IN  [raised |-> FALSE,
              text |-> IntToStr(mins) \o <<":">> \o Pad2(secs)]

-----------------------------------------------------------------------------
(* Timestamp texts *)

\* The parts a generated timestamp text is joined from: "", "abc", "nan",
\* "2.5", " 5", and the digit runs "1", "2", "02", "05", "30", "65".
PartTexts ==
    { <<>>, <<"a", "b", "c">>, <<"n", "a", "n">>, <<"2", ".", "5">>,
      <<" ", "5">>, <<"1">>, <<"2">>, <<"0", "2">>, <<"0", "5">>,
      <<"3", "0">>, <<"6", "5">> }

RECURSIVE Join(_, _)
Join(parts, sep) ==
    IF Len(parts) = 1 THEN parts[1]
    ELSE parts[1] \o <<sep>> \o Join(Tail(parts), sep)

-----------------------------------------------------------------------------
(* extract_frame_at_timestamp, extract_all_frames *)

\* What the decoder does during one call (the environment's choice):
\*   "frame"      cap.read() returns (True, frame)
\*   "no_frame"   cap.read() returns (False, None)
\*   "read_error" cap.read() raises
\*   "open_error" cv2.VideoCapture() raises
DecoderOutcomes == {"frame", "no_frame", "read_error", "open_error"}

NoImage == [got |-> FALSE, at |-> PyNone]
ImageAt(pos) == [got |-> TRUE, at |-> pos]

\* Mutant: no except clause, so a decoder exception leaves the function.
extract_frame_at_timestamp_no_except(video_path, timestamp_seconds, decoder) ==
    IF decoder = "open_error"
    THEN [image |-> NoImage, raised |-> TRUE, opened |-> 0, released |-> 0]
    ELSE IF timestamp_seconds.kind = "None" \/ decoder = "read_error"
    THEN [image |-> NoImage, raised |-> TRUE, opened |-> 1, released |-> 0]
    ELSE IF decoder = "frame"
    THEN [image |-> ImageAt(timestamp_seconds), raised |-> FALSE,
          opened |-> 1, released |-> 1]
    ELSE [image |-> NoImage, raised |-> FALSE, opened |-> 1, released |-> 1]

\* One call.  image: the PIL image or None (NoImage); raised: an exception left
\* the function; opened / released: what happened to the decoder handle
\* (released counts the calls of cap.release(); where it is 0 the handle is
\* left to the interpreter's finalizer).
\* timestamp_seconds * 1000 raises TypeError for None, after the handle was
\* opened; every exception is caught by the function's except clause.
extract_frame_at_timestamp(video_path, timestamp_seconds, decoder) ==
    IF decoder = "open_error"
    THEN [image |-> NoImage, raised |-> FALSE, opened |-> 0, released |-> 0]
    ELSE IF timestamp_seconds.kind = "None" \/ decoder = "read_error"
    THEN [image |-> NoImage, raised |-> FALSE, opened |-> 1, released |-> 0]
    ELSE IF decoder = "frame"
    THEN [image |-> ImageAt(timestamp_seconds), raised |-> FALSE,
          opened |-> 1, released |-> 1]
    ELSE [image |-> NoImage, raised |-> FALSE, opened |-> 1, released |-> 1]

Frame(moment, image) ==
    [moment |-> moment, image |-> image, timestamp |-> moment.timestamp]

\* Mutant: the new frame is put in front of the list.
FrameLoopBodyPrepend(st, video_path, moment, decoder) ==
    LET timestamp_seconds == timestamp_to_seconds(moment.timestamp)
        r == extract_frame_at_timestamp(video_path, timestamp_seconds, decoder)
    IN  [frames |-> IF ~r.raised /\ r.image.got
                    THEN <<Frame(moment, r.image)>> \o st.frames
                    ELSE st.frames,
         calls  |-> Append(st.calls, [pos |-> timestamp_seconds,
                                      got |-> ~r.raised /\ r.image.got]),
         open   |-> st.open + r.opened - r.released,
         raised |-> r.raised]

\* The body of the for loop of extract_all_frames for one moment, from the
\* loop state st = [frames, calls, open, raised].
FrameLoopBody(st, video_path, moment, decoder) ==
    LET timestamp_seconds == timestamp_to_seconds(moment.timestamp)
        r == extract_frame_at_timestamp(video_path, timestamp_seconds, decoder)
    IN  [frames |-> IF ~r.raised /\ r.image.got
                    THEN Append(st.frames, Frame(moment, r.image))
                    ELSE st.frames,
         calls  |-> Append(st.calls, [pos |-> timestamp_seconds,
                                      got |-> ~r.raised /\ r.image.got]),
         open   |-> st.open + r.opened - r.released,
         raised |-> r.raised]

FrameLoopStart == [frames |-> <<>>, calls |-> <<>>, open |-> 0, raised |-> FALSE]

\* The whole for loop over key_moments[k..]; an exception ends it.
RECURSIVE FrameLoopFrom(_, _, _, _, _)
FrameLoopFrom(st, video_path, key_moments, decoders, k) ==
    IF st.raised \/ k > Len(key_moments) THEN st
    ELSE FrameLoopFrom(
             FrameLoopBody(st, video_path, key_moments[k], decoders[k]),
             video_path, key_moments, decoders, k + 1)

extract_all_frames(video_path, key_moments, decoders) ==
    FrameLoopFrom(FrameLoopStart, video_path, key_moments, decoders, 1)

-----------------------------------------------------------------------------
(* Moments *)

Text_0_02 == <<"0", ":", "0", "2">>
Text_0_05 == <<"0", ":", "0", "5">>
Text_0_08 == <<"0", ":", "0", "8">>
Text_abc == <<"a", "b", "c">>
Text_0_nan == <<"0", ":", "n", "a", "n">>

Moment(ts, ty, desc, nav) ==
    [timestamp |-> ts, type |-> ty, description |-> desc,
     navigation_path |-> nav]

\* navigation_path is a text or None.
NoPath == [isNone |-> TRUE, text |-> <<>>]
Path(t) == [isNone |-> FALSE, text |-> t]

\* The moments a batch is drawn from.
BatchMoments ==
    { Moment(ts, "action", <<"d">>, NoPath) :
        ts \in {Text_0_02, Text_0_05, Text_0_08, Text_abc, Text_0_nan} }

SeqsUpTo(S, n) == UNION { [1..k -> S] : k \in 0..n }

\* The elements of s at the indices in idx (from k on), in the order of s.
RECURSIVE SubseqAt(_, _, _)
SubseqAt(s, idx, k) ==
    IF k > Len(s) THEN <<>>
    ELSE (IF k \in idx THEN <<s[k]>> ELSE <<>>) \o SubseqAt(s, idx, k + 1)

-----------------------------------------------------------------------------
(* add_paragraph_with_screenshots, add_screenshot, create_word_document *)

TITLE == <<"[", "T", "I", "T", "L", "E", "]">>
SECTION == <<"[", "S", "E", "C", "T", "I", "O", "N", "]">>
SUBSECTION == <<"[", "S", "U", "B", "S", "E", "C", "T", "I", "O", "N", "]">>
STEP == <<"[", "S", "T", "E", "P", "]">>
BULLET == <<"[", "B", "U", "L", "L", "E", "T", "]">>
SCREENSHOT == <<"[", "S", "C", "R", "E", "E", "N", "S", "H", "O", "T", "]">>

\* A block of the document.  line is the index (0-based) of the text line
\* that produced it: not in the document, kept to state the properties.
Block(kind, level, style, text, image, line) ==
    [kind |-> kind, level |-> level, style |-> style, text |-> text,
     image |-> image, line |-> line]

Heading(text, level, line) ==
    Block("heading", level, "", text, NoImage, line)
Paragraph(text, style, line) ==
    Block("paragraph", -1, style, text, NoImage, line)
Picture(image, line) ==
    Block("picture", -1, "", <<>>, image, line)
Caption(text, line) ==
    Block("caption", -1, "", text, NoImage, line)

\* Nothing is added for a text that is blank after strip().
add_paragraph_with_screenshots(doc, text, frames, style, line) ==
    LET text_stripped == Strip(text) IN
    IF text_stripped = <<>> THEN doc
    ELSE Append(doc, Paragraph(text_stripped, style, line))

\* f"Screenshot {screenshot_num}: {description}"
CaptionText(screenshot_num, description) ==
    <<"S", "c", "r", "e", "e", "n", "s", "h", "o", "t", " ">> \o IntToStr(screenshot_num) \o <<":", " ">> \o description

\* Mutant: the frame is looked up without the guard on len(frames), so an
\* excess number raises IndexError.
add_screenshot_unguarded(doc, screenshot_num, frames, embed_raises, line) ==
    IF screenshot_num <= Len(frames)
    THEN IF embed_raises
         THEN [doc |-> doc, raised |-> TRUE]
         ELSE LET frame_data == frames[screenshot_num] IN
              [doc |-> doc \o
                   << Picture(frame_data.image, line),
                      Caption(CaptionText(screenshot_num,
                                          frame_data.moment.description),
                              line) >>,
               raised |-> FALSE]
    ELSE [doc |-> doc, raised |-> TRUE]

\* Mutant: the frame is looked up one position too far (frames[num], not
\* frames[num - 1]).
add_screenshot_off_by_one(doc, screenshot_num, frames, embed_raises, line) ==
    IF screenshot_num < Len(frames)
    THEN IF embed_raises
         THEN [doc |-> doc, raised |-> TRUE]
         ELSE LET frame_data == frames[screenshot_num + 1] IN
              [doc |-> doc \o
                   << Picture(frame_data.image, line),
                      Caption(CaptionText(screenshot_num,
                                          frame_data.moment.description),
                              line) >>,
               raised |-> FALSE]
    ELSE [doc |-> doc, raised |-> FALSE]

\* frames[screenshot_num - 1] of the 0-based Python list is frames[screenshot_num]
\* here.  embed_raises: image.save or doc.add_picture raises (the environment).
\* Nothing at all is added when screenshot_num > len(frames).
add_screenshot(doc, screenshot_num, frames, embed_raises, line) ==
    IF screenshot_num <= Len(frames)
    THEN IF embed_raises
         THEN [doc |-> doc, raised |-> TRUE]
         ELSE LET frame_data == frames[screenshot_num] IN
              [doc |-> doc \o
                   << Picture(frame_data.image, line),
                      Caption(CaptionText(screenshot_num,
                                          frame_data.moment.description),
                              line) >>,
               raised |-> FALSE]
    ELSE [doc |-> doc, raised |-> FALSE]

\* One iteration of the while loop, from st = [doc, i, counter, raised].
DocLoopBody(st, lines, frames, embed_raises) ==
    LET line == Strip(lines[st.i + 1])
        next(doc) == [doc |-> doc, i |-> st.i + 1, counter |-> st.counter,
                      raised |-> FALSE]
    IN  IF line = <<>>
        THEN next(st.doc)
        ELSE IF StartsWith(line, TITLE)
        THEN next(Append(st.doc, Heading(Strip(SliceFrom(line, 7)), 0, st.i)))
        ELSE IF StartsWith(line, SECTION)
        THEN next(Append(st.doc, Heading(Strip(SliceFrom(line, 9)), 1, st.i)))
        ELSE IF StartsWith(line, SUBSECTION)
        THEN next(Append(st.doc, Heading(Strip(SliceFrom(line, 12)), 2, st.i)))
        ELSE IF StartsWith(line, STEP)
        THEN next(add_paragraph_with_screenshots(
                      st.doc, Strip(SliceFrom(line, 6)), frames,
                      "List Number", st.i))
        ELSE IF StartsWith(line, BULLET)
        THEN next(add_paragraph_with_screenshots(
                      st.doc, Strip(SliceFrom(line, 8)), frames,
                      "List Bullet", st.i))
        ELSE IF StartsWith(line, SCREENSHOT)
        THEN LET r == add_screenshot(st.doc, st.counter + 1, frames,
                                     embed_raises, st.i)
             IN  [doc |-> r.doc,
                  i |-> IF r.raised THEN st.i ELSE st.i + 1,
                  counter |-> st.counter + 1,
                  raised |-> r.raised]
        ELSE next(add_paragraph_with_screenshots(
                      st.doc, line, frames, "", st.i))

DocLoopStart == [doc |-> <<>>, i |-> 0, counter |-> 0, raised |-> FALSE]

\* The whole loop.  fail_at: the screenshot number whose embedding raises
\* (the environment), 0 for none.
RECURSIVE DocLoopFrom(_, _, _, _)
DocLoopFrom(st, lines, frames, fail_at) ==
    IF st.raised \/ st.i >= Len(lines) THEN st
    ELSE DocLoopFrom(
             DocLoopBody(st, lines, frames, st.counter + 1 = fail_at),
             lines, frames, fail_at)

NoDoc == [isNone |-> TRUE, blocks |-> <<>>]

\* The document (its blocks), or None when an exception was caught.
create_word_document(content, frames, fail_at) ==
    LET st == DocLoopFrom(DocLoopStart, Split(content, "\n"), frames, fail_at)
    IN  IF st.raised THEN NoDoc ELSE [isNone |-> FALSE, blocks |-> st.doc]

-----------------------------------------------------------------------------
(* Generated texts and frame lists for the assembler *)

DocLineTexts ==
    { <<"[", "T", "I", "T", "L", "E", "]", " ", "X">>,
      <<"[", "S", "E", "C", "T", "I", "O", "N", "]", " ", "P">>,
      <<"[", "S", "U", "B", "S", "E", "C", "T", "I", "O", "N", "]", " ", "Q">>,
      <<" ", "[", "S", "T", "E", "P", "]", " ", "A", " ">>,
      <<"[", "S", "T", "E", "P", "]">>,
      <<"[", "B", "U", "L", "L", "E", "T", "]", " ", "b">>,
      <<"[", "S", "C", "R", "E", "E", "N", "S", "H", "O", "T", "]">>,
      <<"[", "S", "C", "R", "E", "E", "N", "S", "H", "O", "T", "]", " ", "x">>,
      <<>>,
      <<"A">> }

DocFrameValues ==
    { Frame(Moment(Text_0_02, "action", <<"A">>, NoPath),
            ImageAt(timestamp_to_seconds(Text_0_02))),
      Frame(Moment(Text_0_05, "navigation", <<"B">>, Path(<<"p">>)),
            ImageAt(timestamp_to_seconds(Text_0_05))) }

-----------------------------------------------------------------------------
(* sorted(edited_moments, key=lambda m: timestamp_to_seconds(m['timestamp'])) *)

\* key(a) < key(b) for float keys: False whenever one of them is nan.  (A None
\* key makes the comparison raise TypeError: see SortedByTimestamp.)
KeyLt(a, b) == a.kind = "num" /\ b.kind = "num" /\ a.v < b.v

Reverse(s) == [k \in 1..Len(s) |-> s[Len(s) + 1 - k]]

\* CPython's list sort for a list shorter than 64: the leading run is found
\* (count_run; a strictly descending run is reversed), and the other elements
\* are inserted one by one by binary search (binarysort).  With a total order
\* this is a stable ascending sort; the steps matter only for nan keys.
RECURSIVE RunEnd(_, _, _)
RunEnd(a, k, descending) ==
    IF k >= Len(a) THEN k
    ELSE IF KeyLt(a[k + 1].key, a[k].key) = descending
    THEN RunEnd(a, k + 1, descending)
    ELSE k

RECURSIVE BinaryPos(_, _, _, _)
BinaryPos(a, pivot, l, r) ==
    IF l >= r THEN l
    ELSE LET p == l + ((r - l) \div 2) IN
         IF KeyLt(pivot.key, a[p + 1].key)
         THEN BinaryPos(a, pivot, l, p)
         ELSE BinaryPos(a, pivot, p + 1, r)

RECURSIVE BinarySort(_, _)
BinarySort(a, start) ==
    IF start >= Len(a) THEN a
    ELSE LET pivot == a[start + 1]
             pos == BinaryPos(a, pivot, 0, start)
         IN  BinarySort(SubSeq(a, 1, pos) \o <<pivot>>
                            \o SubSeq(a, pos + 1, start)
                            \o SubSeq(a, start + 2, Len(a)),
                        start + 1)

ListSort(a) ==
    IF Len(a) < 2 THEN a
    ELSE LET descending == KeyLt(a[2].key, a[1].key)
             n == RunEnd(a, 2, descending)
         IN  BinarySort(IF descending
                        THEN Reverse(SubSeq(a, 1, n)) \o SubSeq(a, n + 1, Len(a))
                        ELSE a,
                        n)

\* The keys are computed first, one per moment.  With two or more moments
\* every key is compared at least once, and a comparison with None raises
\* TypeError (raised = TRUE).
SortedByTimestamp(moments) ==
    LET keyed == [k \in 1..Len(moments) |->
                    [key |-> timestamp_to_seconds(moments[k].timestamp),
                     item |-> moments[k]]]
        sorted == ListSort(keyed)
    IN  IF Len(moments) >= 2
           /\ \E k \in 1..Len(moments) : keyed[k].key.kind = "None"
        THEN [raised |-> TRUE, val |-> <<>>]
        ELSE [raised |-> FALSE,
              val |-> [k \in 1..Len(moments) |-> sorted[k].item]]

-----------------------------------------------------------------------------
(* st.session_state, the moment editor and the handlers of main() *)

\* A list or None, and the truth value Python gives it.
NoList == [isNone |-> TRUE, val |-> <<>>]
SomeList(l) == [isNone |-> FALSE, val |-> l]
Truthy(o) == ~o.isNone /\ o.val # <<>>

\* viewing_image = None
NoIndex == -1

\* initialize_session_state().  The entries the script adds later are shown
\* absent: last_uploaded_file_id "", pending_new_moment <<>>, and the
\* editor's widget keys (delete_moments, edit_time_i / edit_type_i as
\* edit_rows) empty.  Rows are numbered from 1 here, from 0 in the code.
FreshSession ==
    [transcript |-> "None",
     key_moments |-> NoList,
     video_path |-> "None",
     extracted_frames |-> NoList,
     word_doc_bytes |-> NoDoc,
     viewing_image |-> NoIndex,
     last_uploaded_file_id |-> "",
     pending_new_moment |-> <<>>,
     delete_moments |-> {},
     edit_rows |-> <<>>]

\* The temporary directory: video tells whether the file that video_path
\* names exists.
EmptyDisk == [video |-> FALSE]

\* Mutant: the upload-change reset leaves viewing_image as it is.
ScriptStartKeepsViewer(w) ==
    IF w.up = "" THEN w
    ELSE LET reset ==
                 IF w.ss.last_uploaded_file_id # w.up
                 THEN [w.ss EXCEPT !.transcript = "None",
                                   !.key_moments = NoList,
                                   !.extracted_frames = NoList,
                                   !.word_doc_bytes = NoDoc,
                                   !.video_path = "None",
                                   !.last_uploaded_file_id = w.up]
                 ELSE w.ss
         IN  [w EXCEPT
                !.ss = [reset EXCEPT !.video_path = "tmp"],
                !.disk = [video |-> TRUE]]

\* The start of every script run: the upload-change reset and the temporary
\* copy, written anew on each run while a file is selected.
ScriptStart(w) ==
    IF w.up = "" THEN w
    ELSE LET reset ==
                 IF w.ss.last_uploaded_file_id # w.up
                 THEN [w.ss EXCEPT !.transcript = "None",
                                   !.key_moments = NoList,
                                   !.extracted_frames = NoList,
                                   !.word_doc_bytes = NoDoc,
                                   !.viewing_image = NoIndex,
                                   !.video_path = "None",
                                   !.last_uploaded_file_id = w.up]
                 ELSE w.ss
         IN  [w EXCEPT
                !.ss = [reset EXCEPT !.video_path = "tmp"],
                !.disk = [video |-> TRUE]]

\* Step 3 is rendered: the editor and the Apply Changes button.
EditorShown(ss) == Truthy(ss.key_moments) /\ ~Truthy(ss.extracted_frames)

\* key_moments + st.session_state.pending_new_moment
Shown(ss) == ss.key_moments.val \o ss.pending_new_moment

type_options == {"navigation", "action", "data_entry", "decision", "submission"}

\* The values the edit_time_i and edit_type_i widgets of a row start with.
DefaultRow(moment) ==
    [timestamp |-> moment.timestamp,
     type |-> IF moment.type \in type_options THEN moment.type ELSE "action"]

\* The dict appended to edited_moments for row i.  The Navigation Path input
\* exists only for type navigation, with the stored path as its value.
EditedRow(ss, i) ==
    LET moment == Shown(ss)[i]
        row == ss.edit_rows[i]
    IN  Moment(row.timestamp, row.type, moment.description,
               IF row.type = "navigation" THEN moment.navigation_path
               ELSE NoPath)

\* Mutant: the rows marked for deletion are not skipped.
show_moment_editor_no_skip(ss) ==
    [i \in 1..Len(Shown(ss)) |-> EditedRow(ss, i)]

\* The list show_moment_editor returns: the rows not selected for deletion.
show_moment_editor(ss) ==
    SubseqAt([i \in 1..Len(Shown(ss)) |-> EditedRow(ss, i)],
             (1..Len(Shown(ss))) \ ss.delete_moments, 1)

\* Mutant: a timestamp that a row already has is refused.
AddThisMomentUnique(ss, new_timestamp, new_type, new_description) ==
    IF /\ new_timestamp # <<>>
       /\ new_description # <<>>
       /\ \A i \in 1..Len(Shown(ss)) : Shown(ss)[i].timestamp # new_timestamp
    THEN [ss EXCEPT !.pending_new_moment =
              Append(@, Moment(new_timestamp, new_type, new_description,
                               IF new_type = "navigation"
                               THEN Path(<<>>) ELSE NoPath))]
    ELSE ss

\* "Add This Moment"
AddThisMoment(ss, new_timestamp, new_type, new_description) ==
    IF new_timestamp # <<>> /\ new_description # <<>>
    THEN [ss EXCEPT !.pending_new_moment =
              Append(@, Moment(new_timestamp, new_type, new_description,
                               IF new_type = "navigation"
                               THEN Path(<<>>) ELSE NoPath))]
    ELSE ss

\* Mutant: no check for an empty result; the empty list is committed.
ApplyChangesUnchecked(w, edited_moments, sorted_moments, decoders) ==
    LET cleared == [w.ss EXCEPT !.pending_new_moment = <<>>]
    IN  IF sorted_moments.raised
        THEN [w EXCEPT !.ss = cleared, !.message = "exception"]
        ELSE LET batch == extract_all_frames(w.ss.video_path,
                                             sorted_moments.val, decoders)
             IN  [w EXCEPT
                    !.ss = [cleared EXCEPT
                              !.key_moments = SomeList(sorted_moments.val),
                              !.extracted_frames = SomeList(batch.frames),
                              !.word_doc_bytes = NoDoc,
                              !.delete_moments = {},
                              !.edit_rows = <<>>],
                    !.disk = [video |-> FALSE],
                    !.message = "success_extracted",
                    !.rerun = TRUE]

\* "Apply Changes & Extract Frames".  edited_moments is the list the editor
\* returned earlier in the same run, sorted_moments the outcome of
\* sorted(edited_moments, key=...), looked at only when the list is not empty.
\* message: what the handler tells the user: st.error "Cannot extract frames -
\* no moments remaining after edits!", st.success "Extracted n screenshots in
\* chronological order!", or the uncaught exception of sorted().
\* sorted() may raise (the run then ends with the pending additions already
\* deleted); after the batch the video file is removed and st.rerun() called.
ApplyChanges(w, edited_moments, sorted_moments, decoders) ==
    LET cleared == [w.ss EXCEPT !.pending_new_moment = <<>>]
    IN  IF edited_moments = <<>>
        THEN [w EXCEPT !.ss = cleared, !.message = "error_no_moments"]
        ELSE IF sorted_moments.raised
        THEN [w EXCEPT !.ss = cleared, !.message = "exception"]
        ELSE LET batch == extract_all_frames(w.ss.video_path,
                                             sorted_moments.val, decoders)
             IN  [w EXCEPT
                    !.ss = [cleared EXCEPT
                              !.key_moments = SomeList(sorted_moments.val),
                              !.extracted_frames = SomeList(batch.frames),
                              !.word_doc_bytes = NoDoc,
                              !.delete_moments = {},
                              !.edit_rows = <<>>],
                    !.disk = [video |-> FALSE],
                    !.message = "success_extracted",
                    !.rerun = TRUE]

\* "Generate Professional Documentation": doc_content is the generated text
\* (<<>> when generate_documentation returned None).
GenerateDocumentation(w, doc_content, fail_at) ==
    LET word_doc == create_word_document(doc_content,
                                         w.ss.extracted_frames.val, fail_at)
    IN  IF doc_content # <<>> /\ ~word_doc.isNone
        THEN [w EXCEPT !.ss = [@ EXCEPT !.word_doc_bytes = word_doc],
                       !.rerun = TRUE]
        ELSE w

\* What a run leaves of the widgets: the editor's widget state lives only
\* while the editor is rendered, a row is added for each new moment, and
\* show_image_viewer drops an index outside the frames.
Rendered(w) ==
    LET ss == w.ss
        n == Len(Shown(ss))
        editor ==
            IF EditorShown(ss)
            THEN [ss EXCEPT
                    !.edit_rows = [i \in 1..n |->
                                     IF i <= Len(ss.edit_rows)
                                     THEN ss.edit_rows[i]
                                     ELSE DefaultRow(Shown(ss)[i])],
                    !.delete_moments = @ \cap (1..n)]
            ELSE [ss EXCEPT !.edit_rows = <<>>, !.delete_moments = {}]
        viewer ==
            IF /\ editor.viewing_image # NoIndex
               /\ Truthy(editor.extracted_frames)
               /\ \/ editor.viewing_image < 0
                  \/ editor.viewing_image >= Len(editor.extracted_frames.val)
            THEN [editor EXCEPT !.viewing_image = NoIndex]
            ELSE editor
    IN  [w EXCEPT !.ss = viewer]

\* The script run in which a handler left w, with the rerun it asked for.
Finish(w) == Rendered(IF w.rerun THEN ScriptStart(w) ELSE w)

\* generate_documentation: the "Screenshot i [timestamp]: description" entry
\* of each frame; the navigation path is added only when it is truthy
\* (neither None nor empty).  navigation <<>>: no " | Navigation: " part.
screenshot_info(i, moment) ==
    [number |-> i,
     timestamp |-> moment.timestamp,
     description |-> moment.description,
     navigation |-> IF moment.navigation_path.isNone
                    THEN <<>> ELSE moment.navigation_path.text]

ScreenshotContext(frames) ==
    [i \in 1..Len(frames) |-> screenshot_info(i, frames[i].moment)]

-----------------------------------------------------------------------------
(* Inputs of a session *)

Files == {"a.mp4:10", "b.mp4:20"}

MomentA == Moment(Text_0_08, "navigation", <<"A">>, Path(<<"p">>))
MomentB == Moment(Text_0_02, "action", <<"B">>, NoPath)

\* The lists analyze_transcript_for_key_moments returns: in any order.
AnalysisResults ==
    { <<MomentA>>, <<MomentB>>, <<MomentA, MomentB>>, <<MomentB, MomentA>> }

\* What the user types into a Timestamp field of a row, and into the fields
\* of "Add New Moment".
EditTimes == {Text_0_nan}
EditTypes == {"action"}
AddTimes == {<<>>, Text_abc, Text_0_05}
AddDescriptions == {<<>>, <<"N">>}

\* What the decoder does at one offset during a commit.
SessionDecoders == {"frame", "no_frame"}

\* Generated texts: a step and two [SCREENSHOT] lines.
SessionContents == { <<"[", "S", "T", "E", "P", "]", " ", "A", "\n", "[", "S", "C", "R", "E", "E", "N", "S", "H", "O", "T", "]", "\n", "[", "S", "C", "R", "E", "E", "N", "S", "H", "O", "T", "]">> }

-----------------------------------------------------------------------------
(* Idle values of each part *)

NoFmt == [raised |-> FALSE, text |-> <<>>]

TimeIdle ==
    /\ ts_text = <<>>
    /\ ts_pc = "idle"
    /\ ts_secs = PyNone
    /\ ts_fmt = NoFmt
    /\ ts_back = PyNone

BatchIdle ==
    /\ b_moments = <<>>
    /\ b_decoder = <<>>
    /\ b_i = 0
    /\ b_frames = <<>>
    /\ b_calls = <<>>
    /\ b_open = 0
    /\ b_pc = "idle"

DocIdle ==
    /\ d_content = <<>>
    /\ d_frames = <<>>
    /\ d_lines = <<>>
    /\ d_i = 0
    /\ d_counter = 0
    /\ d_doc = <<>>
    /\ d_pc = "idle"

AppIdle ==
    /\ session_state = FreshSession
    /\ uploaded_file = ""
    /\ disk = EmptyDisk
    /\ apply_message = "none"

SortIdle ==
    /\ sort_moments = <<>>
    /\ sort_result = <<>>
    /\ sort_pc = "idle"

-----------------------------------------------------------------------------
(* The conversions applied to one text *)

InitTime ==
    /\ \E n \in 1..MaxParts : \E parts \in [1..n -> PartTexts] :
           ts_text = Join(parts, ":")
    /\ ts_pc = "input"
    /\ ts_secs = PyNone
    /\ ts_fmt = NoFmt
    /\ ts_back = PyNone
    /\ BatchIdle
    /\ DocIdle
    /\ AppIdle
    /\ SortIdle

Parse ==
    /\ ts_pc = "input"
    /\ ts_secs' = timestamp_to_seconds(ts_text)
    /\ ts_pc' = "parsed"
    /\ UNCHANGED <<ts_text, ts_fmt, ts_back, batchVars, docVars, appVars, sortVars>>

Format ==
    /\ ts_pc = "parsed"
    /\ ts_fmt' = seconds_to_timestamp(ts_secs)
    /\ ts_pc' = "formatted"
    /\ UNCHANGED <<ts_text, ts_secs, ts_back, batchVars, docVars, appVars, sortVars>>

Reparse ==
    /\ ts_pc = "formatted"
    /\ ~ts_fmt.raised
    /\ ts_back' = timestamp_to_seconds(ts_fmt.text)
    /\ ts_pc' = "reparsed"
    /\ UNCHANGED <<ts_text, ts_secs, ts_fmt, batchVars, docVars, appVars, sortVars>>

NextTime == Parse \/ Format \/ Reparse

SpecTime == InitTime /\ [][NextTime]_vars

-----------------------------------------------------------------------------
(* One call of extract_all_frames, one loop iteration per step *)

InitBatch ==
    /\ b_moments \in SeqsUpTo(BatchMoments, MaxBatch)
    /\ b_decoder \in [1..Len(b_moments) -> DecoderOutcomes]
    /\ b_i = 0
    /\ b_frames = <<>>
    /\ b_calls = <<>>
    /\ b_open = 0
    /\ b_pc = "loop"
    /\ TimeIdle
    /\ DocIdle
    /\ AppIdle
    /\ SortIdle

BatchIterate ==
    /\ b_pc = "loop"
    /\ b_i < Len(b_moments)
    /\ LET st == FrameLoopBody(
                     [frames |-> b_frames, calls |-> b_calls,
                      open |-> b_open, raised |-> FALSE],
                     "video", b_moments[b_i + 1], b_decoder[b_i + 1])
       IN  /\ b_frames' = st.frames
           /\ b_calls' = st.calls
           /\ b_open' = st.open
           /\ b_i' = b_i + 1
           /\ b_pc' = IF st.raised THEN "raised" ELSE "loop"
    /\ UNCHANGED <<b_moments, b_decoder, timeVars, docVars, appVars, sortVars>>

BatchReturn ==
    /\ b_pc = "loop"
    /\ b_i = Len(b_moments)
    /\ b_pc' = "returned"
    /\ UNCHANGED <<b_moments, b_decoder, b_i, b_frames, b_calls, b_open,
                   timeVars, docVars, appVars, sortVars>>

NextBatch == BatchIterate \/ BatchReturn

SpecBatch == InitBatch /\ [][NextBatch]_vars

-----------------------------------------------------------------------------
(* One call of create_word_document, one loop iteration per step *)

InitDoc ==
    /\ \E n \in 1..MaxLines : \E lines \in [1..n -> DocLineTexts] :
           d_content = Join(lines, "\n")
    /\ d_frames \in SeqsUpTo(DocFrameValues, MaxDocFrames)
    /\ d_lines = <<>>
    /\ d_i = 0
    /\ d_counter = 0
    /\ d_doc = <<>>
    /\ d_pc = "call"
    /\ TimeIdle
    /\ BatchIdle
    /\ AppIdle
    /\ SortIdle

\* doc = Document(); lines = content.split('\n'); i = 0; screenshot_counter = 0
DocBegin ==
    /\ d_pc = "call"
    /\ d_lines' = Split(d_content, "\n")
    /\ d_i' = 0
    /\ d_counter' = 0
    /\ d_doc' = <<>>
    /\ d_pc' = "loop"
    /\ UNCHANGED <<d_content, d_frames, timeVars, batchVars, appVars, sortVars>>

\* One iteration; an exception ends the call in the except clause (return None).
DocLine ==
    /\ d_pc = "loop"
    /\ d_i < Len(d_lines)
    /\ \E embed_raises \in BOOLEAN :
         LET st == DocLoopBody(
                       [doc |-> d_doc, i |-> d_i, counter |-> d_counter,
                        raised |-> FALSE],
                       d_lines, d_frames, embed_raises)
         IN  /\ d_doc' = st.doc
             /\ d_i' = st.i
             /\ d_counter' = st.counter
             /\ d_pc' = IF st.raised THEN "failed" ELSE "loop"
    /\ UNCHANGED <<d_content, d_frames, d_lines, timeVars, batchVars, appVars, sortVars>>

\* The loop is over: footer, doc.save, return the bytes.
DocReturn ==
    /\ d_pc = "loop"
    /\ d_i >= Len(d_lines)
    /\ d_pc' = "returned"
    /\ UNCHANGED <<d_content, d_frames, d_lines, d_i, d_counter, d_doc,
                   timeVars, batchVars, appVars, sortVars>>

NextDoc == DocBegin \/ DocLine \/ DocReturn

SpecDoc == InitDoc /\ [][NextDoc]_vars

-----------------------------------------------------------------------------
(* One call of sorted(edited_moments, key=...) in the Apply Changes handler *)

\* The timestamps of the rows: two times, a nan and a text without a colon.
SortTimes == {Text_0_02, Text_0_05, Text_0_nan, Text_abc}

\* edited_moments: row k has the description "k", so that no two rows are
\* the same dict.
InitSort ==
    /\ \E n \in 1..MaxSort : \E times \in [1..n -> SortTimes] :
           sort_moments = [k \in 1..n |->
                              Moment(times[k], "action", IntToStr(k), NoPath)]
    /\ sort_result = <<>>
    /\ sort_pc = "call"
    /\ TimeIdle
    /\ BatchIdle
    /\ DocIdle
    /\ AppIdle

\* sorted_moments = sorted(edited_moments, key=lambda m: ...), or TypeError.
SortCall ==
    /\ sort_pc = "call"
    /\ LET sorted_moments == SortedByTimestamp(sort_moments) IN
       /\ sort_result' = sorted_moments.val
       /\ sort_pc' = IF sorted_moments.raised THEN "raised" ELSE "returned"
    /\ UNCHANGED <<sort_moments, timeVars, batchVars, docVars, appVars>>

NextSort == SortCall

SpecSort == InitSort /\ [][NextSort]_vars

-----------------------------------------------------------------------------
(* One browser session: one action per user interaction, each a whole script
   run (with the rerun it triggers) *)

Init ==
    /\ AppIdle
    /\ SortIdle
    /\ TimeIdle
    /\ BatchIdle
    /\ DocIdle

World ==
    [ss |-> session_state, up |-> uploaded_file, disk |-> disk,
     message |-> "none", rerun |-> FALSE]

Leave(w) ==
    /\ session_state' = w.ss
    /\ uploaded_file' = w.up
    /\ disk' = w.disk
    /\ apply_message' = w.message
    /\ UNCHANGED <<timeVars, batchVars, docVars, sortVars>>

\* The user selects a file in the uploader.
UploadFile ==
    \E f \in Files :
        /\ f # uploaded_file
        /\ Leave(Finish(ScriptStart([World EXCEPT !.up = f])))

\* The user removes the file from the uploader.
RemoveFile ==
    /\ uploaded_file # ""
    /\ Leave(Finish(ScriptStart([World EXCEPT !.up = ""])))

\* "Process Video": audio or transcription fails (nothing kept), the analysis
\* gives nothing (the transcript is kept), or it gives a list of moments, here
\* one that keeps the editor within MaxMoments rows.
ProcessVideo ==
    /\ uploaded_file # ""
    /\ LET w == ScriptStart(World) IN
       \/ Leave(Finish(w))
       \/ Leave(Finish([w EXCEPT !.ss.transcript = "text"]))
       \/ \E key_moments \in AnalysisResults :
              /\ Len(key_moments) + Len(w.ss.pending_new_moment)
                     <= MaxMoments
              /\ Leave(Finish([w EXCEPT
                     !.ss.transcript = "text",
                     !.ss.key_moments = SomeList(key_moments),
                     !.ss.edit_rows = <<>>,
                     !.ss.delete_moments = {},
                     !.rerun = TRUE]))

\* Mutant: selecting row i removes it from the stored list at once.
ToggleDeleteDestructive ==
    /\ EditorShown(session_state)
    /\ \E i \in 1..Len(session_state.key_moments.val) :
         LET w == ScriptStart(World) IN
         Leave(Finish([w EXCEPT
             !.ss.key_moments.val =
                 SubseqAt(@, (1..Len(@)) \ {i}, 1),
             !.ss.edit_rows = <<>>,
             !.ss.delete_moments = @ \cup {i}]))

\* The user selects row i in, or removes it from, the delete multiselect.  A
\* row selected for deletion is not rendered, so its edit widgets are reset.
ToggleDelete ==
    /\ EditorShown(session_state)
    /\ \E i \in 1..Len(Shown(session_state)) :
         LET w == ScriptStart(World) IN
         Leave(Finish(
             IF i \in w.ss.delete_moments
             THEN [w EXCEPT !.ss.delete_moments = @ \ {i}]
             ELSE [w EXCEPT !.ss.delete_moments = @ \cup {i},
                            !.ss.edit_rows[i] = DefaultRow(Shown(w.ss)[i])]))

\* The user types a timestamp into row i.
EditTimestamp ==
    /\ EditorShown(session_state)
    /\ \E i \in (1..Len(Shown(session_state))) \ session_state.delete_moments,
          new_timestamp \in EditTimes :
         LET w == ScriptStart(World) IN
         Leave(Finish([w EXCEPT !.ss.edit_rows[i].timestamp = new_timestamp]))

\* The user picks a type in row i.
EditType ==
    /\ EditorShown(session_state)
    /\ \E i \in (1..Len(Shown(session_state))) \ session_state.delete_moments,
          new_type \in EditTypes :
         LET w == ScriptStart(World) IN
         Leave(Finish([w EXCEPT !.ss.edit_rows[i].type = new_type]))

\* "Add This Moment"
AddMoment ==
    /\ EditorShown(session_state)
    /\ Len(Shown(session_state)) < MaxMoments
    /\ \E new_timestamp \in AddTimes, new_description \in AddDescriptions :
         LET w == ScriptStart(World) IN
         Leave(Finish([w EXCEPT !.ss = AddThisMoment(
                           @, new_timestamp, "action", new_description)]))

\* "Apply Changes & Extract Frames".  A frame can be read only while the file
\* that video_path names exists.
Commit ==
    /\ EditorShown(session_state)
    /\ LET w == ScriptStart(World)
           edited_moments == show_moment_editor(w.ss)
           sorted_moments == SortedByTimestamp(edited_moments)
           n == Len(edited_moments)
       IN  \E decoders \in [1..n -> SessionDecoders] :
             /\ w.disk.video \/ \A k \in 1..n : decoders[k] # "frame"
             /\ Leave(Finish(ApplyChanges(w, edited_moments, sorted_moments,
                                          decoders)))

\* "View Full Size" under frame i
ViewFullSize ==
    /\ Truthy(session_state.extracted_frames)
    /\ \E i \in 0..(Len(session_state.extracted_frames.val) - 1) :
         LET w == ScriptStart(World) IN
         Leave(Finish([w EXCEPT !.ss.viewing_image = i, !.rerun = TRUE]))

ViewerShown(ss) == ss.viewing_image # NoIndex /\ Truthy(ss.extracted_frames)

\* "Previous", "Next" (disabled at the ends) and "Close Viewer"
ViewerButton ==
    /\ ViewerShown(session_state)
    /\ LET w == ScriptStart(World)
           current_index == w.ss.viewing_image
           total_images == Len(w.ss.extracted_frames.val)
       IN  \/ /\ current_index # 0
              /\ Leave(Finish([w EXCEPT !.ss.viewing_image = current_index - 1,
                                        !.rerun = TRUE]))
           \/ /\ current_index # total_images - 1
              /\ Leave(Finish([w EXCEPT !.ss.viewing_image = current_index + 1,
                                        !.rerun = TRUE]))
           \/ Leave(Finish([w EXCEPT !.ss.viewing_image = NoIndex,
                                     !.rerun = TRUE]))

\* Mutant: the button is there before any frame was extracted.
GenerateWithoutFrames ==
    /\ session_state.word_doc_bytes.isNone
    /\ session_state.transcript # "None"
    /\ \E doc_content \in SessionContents \cup {<<>>}, fail_at \in 0..1 :
         Leave(Finish(GenerateDocumentation(ScriptStart(World),
                                            doc_content, fail_at)))

\* Mutant: the button is there for an empty frame list too.
GenerateOnEmptyFrames ==
    /\ ~session_state.extracted_frames.isNone
    /\ session_state.word_doc_bytes.isNone
    /\ \E doc_content \in SessionContents \cup {<<>>}, fail_at \in 0..1 :
         Leave(Finish(GenerateDocumentation(ScriptStart(World),
                                            doc_content, fail_at)))

\* "Generate Professional Documentation"
Generate ==
    /\ Truthy(session_state.extracted_frames)
    /\ session_state.word_doc_bytes.isNone
    /\ \E doc_content \in SessionContents \cup {<<>>}, fail_at \in 0..1 :
         Leave(Finish(GenerateDocumentation(ScriptStart(World),
                                            doc_content, fail_at)))

\* "Start New Process": every key is deleted, the rerun initialises anew.
StartNewProcess ==
    Leave(Finish([ScriptStart(World) EXCEPT !.ss = FreshSession,
                                            !.rerun = TRUE]))

\* Any other interaction (a download, an expander): the script runs again.
Rerun ==
    Leave(Finish(ScriptStart(World)))

Next ==
    \/ UploadFile
    \/ RemoveFile
    \/ ProcessVideo
    \/ ToggleDelete
    \/ EditTimestamp
    \/ EditType
    \/ AddMoment
    \/ Commit
    \/ ViewFullSize
    \/ ViewerButton
    \/ Generate
    \/ StartNewProcess
    \/ Rerun

Spec == Init /\ [][Next]_vars

-----------------------------------------------------------------------------
(* Properties of the timestamp conversions (SpecTime) *)

PartsOf(text) == Split(text, ":")

\* A part that reads as a number: digits with an optional decimal point.
NumericPart(p) == ParseFloat(p).ok /\ ParseFloat(p).val.kind = "num"

\* The empty text, a part count other than 2 or 3, or a non-numeric part.
Malformed(text) ==
    \/ text = <<>>
    \/ Len(PartsOf(text)) \notin {2, 3}
    \/ \E k \in 1..Len(PartsOf(text)) : ~NumericPart(PartsOf(text)[k])

DigitRun(p) == p # <<>> /\ AllDigits(p)

WellFormed(text, n) ==
    /\ Len(PartsOf(text)) = n
    /\ \A k \in 1..n : DigitRun(PartsOf(text)[k])

Text_2_30 == <<"2", ":", "3", "0">>
Text_1_02_05 == <<"1", ":", "0", "2", ":", "0", "5">>
Text_1_65 == <<"1", ":", "6", "5">>
Text_2_05 == <<"2", ":", "0", "5">>

\* C2: timestamp_to_seconds returns 0 for every malformed timestamp text: the
\* empty string, a part count other than 2 or 3, a non-numeric part.
C2_MalformedGivesZero ==
    (ts_pc \in {"parsed", "formatted", "reparsed"} /\ Malformed(ts_text))
        => ts_secs = PyNum(0)

\* C3: a well-formed MM:SS text gives 60*minutes + seconds and a well-formed
\* HH:MM:SS text gives 3600*hours + 60*minutes + seconds; "2:30" gives 150
\* and "1:02:05" gives 3725.
C3_WellFormedSeconds ==
    ts_pc \in {"parsed", "formatted", "reparsed"} =>
        LET p == PartsOf(ts_text) IN
        /\ WellFormed(ts_text, 2) =>
               ts_secs = PyNum(Milli * (60 * DigitsVal(p[1]) + DigitsVal(p[2])))
        /\ WellFormed(ts_text, 3) =>
               ts_secs = PyNum(Milli * (3600 * DigitsVal(p[1])
                                        + 60 * DigitsVal(p[2])
                                        + DigitsVal(p[3])))
        /\ ts_text = Text_2_30 => ts_secs = PyNum(150 * Milli)
        /\ ts_text = Text_1_02_05 => ts_secs = PyNum(3725 * Milli)

C3_Witness ==
    /\ ts_pc = "parsed"
    /\ ts_text = Text_1_02_05
    /\ ts_secs = PyNum(3725 * Milli)

\* C4: for a valid MM:SS text with integer minutes and seconds,
\* seconds_to_timestamp(timestamp_to_seconds(s)) is a text that
\* timestamp_to_seconds maps to the same number of seconds as s.
C4_RoundTripSeconds ==
    WellFormed(ts_text, 2) =>
        /\ ts_pc \in {"formatted", "reparsed"} => ~ts_fmt.raised
        /\ ts_pc = "reparsed" => ts_secs.kind = "num" /\ ts_back = ts_secs

\* "1:65" is formatted as "2:05": another text, the same 125 seconds.
C4_Witness ==
    /\ ts_pc = "reparsed"
    /\ ts_text = Text_1_65
    /\ ts_fmt.text = Text_2_05
    /\ ts_back = PyNum(125 * Milli)

-----------------------------------------------------------------------------
(* Properties of extract_all_frames (SpecBatch) *)

MomentsOf(frames) == [k \in 1..Len(frames) |-> frames[k].moment]

\* The moments whose call of extract_frame_at_timestamp returned an image.
Succeeded == { k \in 1..Len(b_calls) : b_calls[k].got }

\* C5: the returned frame list is no longer than the input and its moments
\* are exactly the moments whose extraction succeeded, each once, in the
\* input's order.
C5_FramesAreSurvivorsInOrder ==
    b_pc = "returned" =>
        /\ Len(b_frames) <= Len(b_moments)
        /\ MomentsOf(b_frames) = SubseqAt(b_moments, Succeeded, 1)
        /\ \A k \in 1..Len(b_frames) :
               b_frames[k].timestamp = b_frames[k].moment.timestamp

\* Input [0:02, 0:05, 0:08] with 0:05 failing: the frames of 0:02 then 0:08.
C5_Witness ==
    /\ b_pc = "returned"
    /\ [k \in 1..Len(b_moments) |-> b_moments[k].timestamp]
           = <<Text_0_02, Text_0_05, Text_0_08>>
    /\ b_decoder = <<"frame", "no_frame", "frame">>
    /\ [k \in 1..Len(b_frames) |-> b_frames[k].timestamp]
           = <<Text_0_02, Text_0_08>>

\* C6: a failed extraction never aborts the batch: no exception leaves
\* extract_frame_at_timestamp, every failure (unreadable position, decoder
\* error) is a 'no frame' result, the moment is dropped without retry or
\* blank replacement, and every later moment is still attempted.
C6_FailureNeverAbortsBatch ==
    /\ b_pc # "raised"
    /\ \A k \in 1..Len(b_calls) :
           /\ b_calls[k].pos = timestamp_to_seconds(b_moments[k].timestamp)
           /\ b_decoder[k] # "frame" => ~b_calls[k].got
    /\ Len(b_frames) = Cardinality(Succeeded)
    /\ b_pc = "returned" => Len(b_calls) = Len(b_moments)

\* The first extraction raised inside the decoder, a later one gave a frame.
C6_Witness ==
    /\ b_pc = "returned"
    /\ Len(b_moments) = 3
    /\ b_decoder[1] = "read_error"
    /\ b_decoder[2] = "no_frame"
    /\ Len(b_calls) = 3
    /\ Len(b_frames) = 1
    /\ b_frames[1].moment = b_moments[3]

-----------------------------------------------------------------------------
(* Properties of create_word_document (SpecDoc) *)

\* A [SCREENSHOT] line of the text stream.
IsScreenshotLine(l) == StartsWith(Strip(l), SCREENSHOT)

\* How many of the lines 0..j (0-based) are [SCREENSHOT] lines.
ShotsUpTo(lines, j) ==
    Cardinality({ k \in 1..(j + 1) : IsScreenshotLine(lines[k]) })

\* Line j is a [SCREENSHOT] line beyond the last frame.
ExcessLine(lines, frames, j) ==
    /\ IsScreenshotLine(lines[j + 1])
    /\ ShotsUpTo(lines, j) > Len(frames)

BlocksOfLine(doc, j) == { k \in 1..Len(doc) : doc[k].line = j }

\* C8: each [SCREENSHOT] line beyond the last frame produces an explicit
\* missing-image placeholder block at its position in the document.
C8_ExcessShotGetsPlaceholder ==
    d_pc = "returned" =>
        \A j \in 0..(Len(d_lines) - 1) :
            ExcessLine(d_lines, d_frames, j) => BlocksOfLine(d_doc, j) # {}

FillerFrame ==
    Frame(Moment(Text_0_08, "action", <<"F">>, NoPath),
          ImageAt(timestamp_to_seconds(Text_0_08)))

\* frames followed by as many further frames as the text has lines.
EnoughFrames(frames, lines) ==
    frames \o [k \in 1..Len(lines) |-> FillerFrame]

RECURSIVE DropExcess(_, _, _)
DropExcess(doc, lines, frames) ==
    IF doc = <<>> THEN <<>>
    ELSE (IF ExcessLine(lines, frames, Head(doc).line)
          THEN <<>> ELSE <<Head(doc)>>)
         \o DropExcess(Tail(doc), lines, frames)

\* C9: assembly never fails because [SCREENSHOT] lines outnumber frames (a
\* call fails only while embedding an available frame), and the document
\* returned holds, in order, exactly the blocks that the same text gives
\* with enough frames, less those of the excess [SCREENSHOT] lines.
C9_ExcessShotsNeverFail ==
    /\ d_pc = "failed" =>
           /\ IsScreenshotLine(d_lines[d_i + 1])
           /\ d_counter <= Len(d_frames)
    /\ d_pc = "returned" =>
           LET full == create_word_document(
                           d_content, EnoughFrames(d_frames, d_lines), 0)
           IN  /\ ~full.isNone
               /\ d_doc = DropExcess(full.blocks, d_lines, d_frames)

\* No frame at all, a step and an excess [SCREENSHOT] line: the step is there.
C9_Witness ==
    /\ d_pc = "returned"
    /\ d_frames = <<>>
    /\ Len(d_lines) = 3
    /\ IsScreenshotLine(d_lines[1])
    /\ StartsWith(Strip(d_lines[2]), STEP)
    /\ IsScreenshotLine(d_lines[3])
    /\ Len(d_doc) = 1
    /\ d_doc[1].kind = "paragraph"
    /\ d_doc[1].line = 1

\* C10: the k-th [SCREENSHOT] line is bound to the k-th frame whenever there
\* are that many frames, whatever the text around it: the counter is the
\* number of [SCREENSHOT] lines passed, every picture block holds the image of
\* the frame at its line's ordinal (and is captioned with that frame's
\* description), and every [SCREENSHOT] line within the frames has its picture.
C10_PositionalBinding ==
    /\ d_pc \in {"loop", "returned"} =>
           /\ d_counter = (IF d_i = 0 THEN 0 ELSE ShotsUpTo(d_lines, d_i - 1))
           /\ \A j \in 0..(d_i - 1) :
                  (/\ IsScreenshotLine(d_lines[j + 1])
                   /\ ShotsUpTo(d_lines, j) <= Len(d_frames))
                  => Cardinality({ k \in BlocksOfLine(d_doc, j) :
                                     d_doc[k].kind = "picture" }) = 1
    /\ \A k \in 1..Len(d_doc) :
           d_doc[k].kind = "picture" =>
               LET n == ShotsUpTo(d_lines, d_doc[k].line) IN
               /\ IsScreenshotLine(d_lines[d_doc[k].line + 1])
               /\ n <= Len(d_frames)
               /\ d_doc[k].image = d_frames[n].image
               /\ k < Len(d_doc)
               /\ d_doc[k + 1] =
                      Caption(CaptionText(n, d_frames[n].moment.description),
                              d_doc[k].line)

\* Two [SCREENSHOT] lines around another line, two different frames.
C10_Witness ==
    /\ d_pc = "returned"
    /\ Len(d_frames) = 2
    /\ d_frames[1] # d_frames[2]
    /\ Len(d_lines) = 3
    /\ IsScreenshotLine(d_lines[1])
    /\ ~IsScreenshotLine(d_lines[2])
    /\ IsScreenshotLine(d_lines[3])
    /\ \E k1, k2 \in 1..Len(d_doc) :
           /\ k1 < k2
           /\ d_doc[k1].kind = "picture" /\ d_doc[k1].image = d_frames[1].image
           /\ d_doc[k2].kind = "picture" /\ d_doc[k2].image = d_frames[2].image

\* The block that the line grammar gives the stripped line at index j: the
\* title, section, subsection, step or bullet with the text after the
\* delimiter, otherwise the plain text of the line.
GrammarBlock(line, j) ==
    IF StartsWith(line, TITLE)
    THEN Heading(Strip(SliceFrom(line, Len(TITLE))), 0, j)
    ELSE IF StartsWith(line, SECTION)
    THEN Heading(Strip(SliceFrom(line, Len(SECTION))), 1, j)
    ELSE IF StartsWith(line, SUBSECTION)
    THEN Heading(Strip(SliceFrom(line, Len(SUBSECTION))), 2, j)
    ELSE IF StartsWith(line, STEP)
    THEN Paragraph(Strip(SliceFrom(line, Len(STEP))), "List Number", j)
    ELSE IF StartsWith(line, BULLET)
    THEN Paragraph(Strip(SliceFrom(line, Len(BULLET))), "List Bullet", j)
    ELSE Paragraph(line, "", j)

\* The blocks of the lines from index j on, blank lines and [SCREENSHOT]
\* lines left out.
RECURSIVE GrammarBlocksFrom(_, _)
GrammarBlocksFrom(lines, j) ==
    IF j >= Len(lines) THEN <<>>
    ELSE (IF Strip(lines[j + 1]) = <<>> \/ IsScreenshotLine(lines[j + 1])
          THEN <<>>
          ELSE <<GrammarBlock(Strip(lines[j + 1]), j)>>)
         \o GrammarBlocksFrom(lines, j + 1)

IsTextBlock(b) == b.kind \in {"heading", "paragraph"}

\* C11: each line is classified by its leading delimiter: [TITLE], [SECTION],
\* [SUBSECTION], [STEP], [BULLET] give the title, section, subsection, step
\* and bullet block with the text after the delimiter, any other non-blank
\* line gives a plain text block, blank lines give nothing, and the blocks
\* stand in line order.
\* Refuted: the line "[STEP]" gives no block at all.
C11_LinesClassifiedInOrder ==
    d_pc = "returned" =>
        SelectSeq(d_doc, IsTextBlock) = GrammarBlocksFrom(d_lines, 0)

\* C22: a failure while embedding one screenshot, or while handling one line,
\* stays local: the loop goes on with the next line and the call returns a
\* document, so no call ends in the except clause.
\* Refuted: the exception of one embedding ends the loop, and None is returned.
C22_AssemblyErrorsLocal ==
    /\ d_pc # "failed"
    /\ d_pc = "returned" =>
           \A j \in 0..(Len(d_lines) - 1) :
               (/\ Strip(d_lines[j + 1]) # <<>>
                /\ ~IsScreenshotLine(d_lines[j + 1])
                /\ Strip(d_lines[j + 1]) \notin {STEP, BULLET})
               => BlocksOfLine(d_doc, j) # {}

\* The blocks a line counts for: a picture and its caption are one.
UnitsOfLine(doc, j) == { k \in BlocksOfLine(doc, j) : doc[k].kind # "caption" }

\* C23: with as many frames as [SCREENSHOT] lines, every non-blank line of
\* the text gives exactly one block (a picture with its caption counted as
\* one) and a blank line gives none, so there are as many blocks as non-blank
\* lines; a bare "[STEP]" and a "[SCREENSHOT]" with text after it included.
\* Refuted: the line "[STEP]" gives no block.
C23_OneBlockPerLine ==
    (/\ d_pc = "returned"
     /\ ShotsUpTo(d_lines, Len(d_lines) - 1) <= Len(d_frames))
    => /\ \A j \in 0..(Len(d_lines) - 1) :
              Cardinality(UnitsOfLine(d_doc, j))
                  = (IF Strip(d_lines[j + 1]) = <<>> THEN 0 ELSE 1)
       /\ Cardinality({ k \in 1..Len(d_doc) : d_doc[k].kind # "caption" })
              = Cardinality({ j \in 1..Len(d_lines) :
                                Strip(d_lines[j]) # <<>> })

-----------------------------------------------------------------------------
(* Properties of a session (Spec) *)

TimeOf(moment) == timestamp_to_seconds(moment.timestamp)

\* No moment stands before a moment of an earlier time.
Chronological(moments) ==
    \A i, j \in 1..Len(moments) :
        i < j => ~KeyLt(TimeOf(moments[j]), TimeOf(moments[i]))

\* A step of Apply Changes that reaches the assignment of key_moments.
SuccessfulCommit == apply_message' = "success_extracted"
    /\ LET edited_moments == show_moment_editor(ScriptStart(World).ss)
       IN  /\ edited_moments # <<>>
           /\ ~SortedByTimestamp(edited_moments).raised

\* C1: whatever was added, edited and selected for deletion in the editor, a
\* successful commit stores in key_moments the surviving moments in
\* non-decreasing order of timestamp_to_seconds of their timestamps.
\* Refuted: the rows 0:08, 0:nan, 0:05 are stored in that order.
C1_CommitStoresChronological ==
    [][SuccessfulCommit => Chronological(session_state'.key_moments.val)]_vars

\* C7: in every state of a session the moments of extracted_frames are in
\* non-decreasing order of time.
\* Refuted: after the commit of 0:08, 0:nan, 0:05 the frame of 0:08 stands
\* before the frame of 0:05.
C7_FramesChronological ==
    Chronological(MomentsOf(session_state.extracted_frames.val))

Range(seq) == { seq[k] : k \in 1..Len(seq) }

\* The stored moments selected for deletion that equal no surviving row.
GoneAtCommit(ss) ==
    { Shown(ss)[i] : i \in ss.delete_moments }
        \ { EditedRow(ss, j) : j \in (1..Len(Shown(ss))) \ ss.delete_moments }

InContext(moment, frames) ==
    \E k \in 1..Len(frames) :
        /\ ScreenshotContext(frames)[k].timestamp = moment.timestamp
        /\ ScreenshotContext(frames)[k].description = moment.description

\* C12: a moment selected for deletion when a commit succeeds is absent, after
\* the commit, from key_moments, from the frames, from the screenshot context
\* and from the result of the next editor pass, and the delete selection and
\* the pending additions are empty; afterwards key_moments changes only by a
\* commit, a new analysis or a reset, and the frames only by a commit or a
\* reset, so it does not come back.
C12_DeletedNeverResurrected ==
    [][/\ SuccessfulCommit =>
            /\ \A m \in GoneAtCommit(session_state) :
                   /\ m \notin Range(session_state'.key_moments.val)
                   /\ m \notin Range(MomentsOf(session_state'.extracted_frames.val))
                   /\ ~InContext(m, session_state'.extracted_frames.val)
                   /\ EditorShown(session_state') =>
                          m \notin Range(show_moment_editor(session_state'))
            /\ session_state'.delete_moments = {}
            /\ session_state'.pending_new_moment = <<>>
       /\ ~SuccessfulCommit =>
            /\ \/ session_state'.key_moments = session_state.key_moments
               \/ session_state'.key_moments = NoList
               \/ session_state'.key_moments.val \in AnalysisResults
            /\ \/ session_state'.extracted_frames = session_state.extracted_frames
               \/ session_state'.extracted_frames = NoList
      ]_vars

\* Both moments of the analysis were selected for deletion and an added one
\* was committed: it is the only moment and the only frame.
C12_Witness ==
    /\ session_state.key_moments.val
           = <<Moment(Text_0_05, "action", <<"N">>, NoPath)>>
    /\ MomentsOf(session_state.extracted_frames.val)
           = session_state.key_moments.val
    /\ session_state.delete_moments = {}
    /\ session_state.pending_new_moment = <<>>

\* The rows of the editor that are not selected for deletion.
KeptRows(ss) == (1..Len(Shown(ss))) \ ss.delete_moments

Unedited(ss) ==
    \A i \in 1..Len(Shown(ss)) : ss.edit_rows[i] = DefaultRow(Shown(ss)[i])

Descriptions(moments) == [k \in 1..Len(moments) |-> moments[k].description]

\* The editor's result is made of the rows outside the delete selection, in
\* order; it is the stored moments themselves where no field was edited.
ResultIsKeptRows(ss) ==
    /\ Descriptions(show_moment_editor(ss))
           = SubseqAt(Descriptions(Shown(ss)), KeptRows(ss), 1)
    /\ Unedited(ss) =>
           show_moment_editor(ss) = SubseqAt(Shown(ss), KeptRows(ss), 1)

\* C13: deletion is not destructive before the commit: a change of the delete
\* selection leaves key_moments and the pending additions as they were, the
\* editor's result is exactly the stored moments whose row is not selected,
\* and a deselected moment is part of the result again.
C13_DeletionReversibleUntilCommit ==
    [][/\ EditorShown(session_state') => ResultIsKeptRows(session_state')
       /\ (/\ session_state'.delete_moments # session_state.delete_moments
           /\ ToggleDelete) =>
              /\ session_state'.key_moments = session_state.key_moments
              /\ session_state'.pending_new_moment
                     = session_state.pending_new_moment
              /\ \A i \in session_state.delete_moments
                             \ session_state'.delete_moments :
                     Shown(session_state')[i]
                         \in Range(show_moment_editor(session_state'))
      ]_vars

\* The first of two moments is selected for deletion: both are still stored,
\* the result is the second alone.
C13_Witness ==
    /\ session_state.key_moments.val = <<MomentA, MomentB>>
    /\ session_state.pending_new_moment = <<>>
    /\ session_state.delete_moments = {1}
    /\ show_moment_editor(session_state) = <<MomentB>>

\* C14: a commit whose result is empty is reported as an error of its own
\* and is never a success: the handler gives the error message exactly when
\* no row is left, no success message, and key_moments, extracted_frames and
\* word_doc_bytes keep their values (no extraction is started).
C14_EmptyCommitIsAnError ==
    [][apply_message' # "none" =>
          /\ (show_moment_editor(session_state) = <<>>)
                 <=> (apply_message' = "error_no_moments")
          /\ apply_message' = "error_no_moments" =>
                 /\ session_state'.key_moments = session_state.key_moments
                 /\ session_state'.extracted_frames
                        = session_state.extracted_frames
                 /\ session_state'.word_doc_bytes
                        = session_state.word_doc_bytes
      ]_vars

\* Both moments were selected for deletion and Apply Changes was clicked.
C14_Witness ==
    /\ apply_message = "error_no_moments"
    /\ session_state.key_moments.val = <<MomentA, MomentB>>
    /\ session_state.delete_moments = {1, 2}
    /\ session_state.extracted_frames.isNone

\* a is b with some elements left out.
IsSubsequence(a, b) ==
    \E idx \in SUBSET (1..Len(b)) : a = SubseqAt(b, idx, 1)

\* C15: the stages never mix: extracted_frames receives a list only in a
\* successful commit, and it is a batch over the sorted list that the same
\* commit stored; word_doc_bytes receives a document only in a run without a
\* commit, while a non-empty frame list is held, assembled from exactly that
\* list, which the run leaves as it is.
C15_StrictlyStaged ==
    [][/\ (/\ session_state'.extracted_frames # session_state.extracted_frames
           /\ ~session_state'.extracted_frames.isNone) =>
              /\ apply_message' = "success_extracted"
              /\ session_state'.key_moments.val
                     = SortedByTimestamp(show_moment_editor(session_state)).val
              /\ IsSubsequence(MomentsOf(session_state'.extracted_frames.val),
                               session_state'.key_moments.val)
       /\ apply_message' = "success_extracted" =>
              session_state'.word_doc_bytes.isNone
       /\ (/\ session_state'.word_doc_bytes # session_state.word_doc_bytes
           /\ ~session_state'.word_doc_bytes.isNone) =>
              /\ apply_message' = "none"
              /\ Truthy(session_state.extracted_frames)
              /\ session_state'.extracted_frames
                     = session_state.extracted_frames
              /\ \E doc_content \in SessionContents, fail_at \in 0..1 :
                     session_state'.word_doc_bytes
                         = create_word_document(
                               doc_content,
                               session_state.extracted_frames.val, fail_at)
      ]_vars

\* A document is held that was assembled from the two frames held.
C15_Witness ==
    /\ ~session_state.word_doc_bytes.isNone
    /\ Len(session_state.extracted_frames.val) = 2
    /\ \E k \in 1..Len(session_state.word_doc_bytes.blocks) :
           /\ session_state.word_doc_bytes.blocks[k].kind = "picture"
           /\ session_state.word_doc_bytes.blocks[k].image
                  = session_state.extracted_frames.val[2].image

\* C16: while a non-empty frame list is held, key_moments does not change
\* underneath it: in every state the moments of the held frames are a
\* subsequence of key_moments.
\* Refuted: Process Video replaces key_moments and keeps extracted_frames.
C16_FramesFollowMoments ==
    Truthy(session_state.extracted_frames) =>
        IsSubsequence(MomentsOf(session_state.extracted_frames.val),
                      session_state.key_moments.val)

\* The rows committed with a type other than navigation whose stored moment
\* is a navigation moment.
RetypedRows(ss) ==
    { i \in KeptRows(ss) : /\ Shown(ss)[i].type = "navigation"
                           /\ ss.edit_rows[i].type # "navigation" }

\* C17: when a moment's type is edited from navigation to another type, the
\* committed record still carries the navigation path text it had, and the
\* path is only hidden downstream: the screenshot context of its frame shows
\* no navigation part.
\* Refuted: the committed record has navigation_path None.
C17_PathHiddenNotDeleted ==
    [][SuccessfulCommit =>
          \A i \in RetypedRows(session_state) :
              /\ \A k \in 1..Len(session_state'.key_moments.val) :
                     LET m == session_state'.key_moments.val[k] IN
                     m.description = Shown(session_state)[i].description =>
                         /\ m.type # "navigation"
                         /\ m.navigation_path
                                = Shown(session_state)[i].navigation_path
              /\ \A k \in 1..Len(session_state'.extracted_frames.val) :
                     LET c == ScreenshotContext(
                                  session_state'.extracted_frames.val)[k] IN
                     c.description = Shown(session_state)[i].description =>
                         c.navigation = <<>>
      ]_vars

-----------------------------------------------------------------------------
(* Properties of the decoder handle (SpecBatch) *)

\* C18: every decoder handle opened for an extraction is released before
\* extract_frame_at_timestamp returns, on every path, so that none is open
\* between two calls or once the batch has completed.
\* Refuted: an exception raised after cv2.VideoCapture() skips cap.release().
C18_HandlesReleased ==
    b_open = 0

-----------------------------------------------------------------------------
(* Properties of a session (Spec), continued *)

\* C19: once a frame batch has completed, no temporary copy of the uploaded
\* video is on disk, in the state the commit leaves and in every later state
\* that still holds the batch's frames.
\* Refuted: the run that follows st.rerun() writes the copy again.
C19_NoVideoCopyAfterBatch ==
    ~session_state.extracted_frames.isNone => ~disk.video

AddedMoment(new_timestamp, new_description) ==
    Moment(new_timestamp, "action", new_description, NoPath)

\* C20 as stated: Add This Moment appends the new moment at the end of the
\* list whatever its timestamp text is, malformed, empty or already there.
\* Refuted: with an empty timestamp nothing is added.
C20_AddAcceptsAnyTimestamp ==
    EditorShown(session_state) =>
        \A new_timestamp \in AddTimes :
            Shown(AddThisMoment(session_state, new_timestamp, "action",
                                <<"N">>))
                = Append(Shown(session_state),
                         AddedMoment(new_timestamp, <<"N">>))

\* C20, amended: Add This Moment refuses an empty timestamp and an empty
\* description and then changes nothing; otherwise it appends the new moment
\* at the end of the list, key_moments untouched, without any check of the
\* timestamp's form and without any check for a moment of the same timestamp;
\* and the pending additions grow in no other way.
C20_AddAppendsNonEmpty ==
    [][/\ EditorShown(session_state') =>
            \A new_timestamp \in AddTimes, new_description \in AddDescriptions :
                LET after == AddThisMoment(session_state', new_timestamp,
                                           "action", new_description)
                IN  IF new_timestamp = <<>> \/ new_description = <<>>
                    THEN after = session_state'
                    ELSE /\ Shown(after)
                              = Append(Shown(session_state'),
                                       AddedMoment(new_timestamp,
                                                   new_description))
                         /\ after.key_moments = session_state'.key_moments
       /\ (/\ session_state'.pending_new_moment
                  # session_state.pending_new_moment
           /\ session_state'.pending_new_moment # <<>>) =>
              \E new_timestamp \in AddTimes \ {<<>>},
                 new_description \in AddDescriptions \ {<<>>} :
                  /\ session_state'.pending_new_moment
                         = Append(session_state.pending_new_moment,
                                  AddedMoment(new_timestamp, new_description))
                  /\ session_state'.key_moments = session_state.key_moments
      ]_vars

\* Two moments with the malformed timestamp "abc" were added one after the
\* other: both are at the end of the list.
C20_Witness ==
    /\ EditorShown(session_state)
    /\ session_state.pending_new_moment
           = <<AddedMoment(Text_abc, <<"N">>), AddedMoment(Text_abc, <<"N">>)>>
    /\ Shown(session_state)
           = session_state.key_moments.val
                 \o session_state.pending_new_moment

\* C24: the sort key of every moment the editor holds is a number, and so no
\* commit fails because of what a timestamp says: the handler never ends in
\* the exception of sorted().
\* Refuted: a timestamp without a colon has the key None, and the commit of
\* two moments, one of them with such a timestamp, raises TypeError.
C24_CommitNeverFailsOnTimestamp ==
    /\ apply_message # "exception"
    /\ EditorShown(session_state) =>
           \A k \in 1..Len(show_moment_editor(session_state)) :
               TimeOf(show_moment_editor(session_state)[k]).kind = "num"

\* C25: when the uploaded file changes, the moment state of the previous file
\* is discarded: the run that takes up the new file leaves no pending
\* addition and no delete selection, so that the editor of the new file, and
\* its first commit, start from the analysis of the new file alone.
\* Refuted: pending_new_moment is not reset, and the moments added for the
\* previous file are rows of the new file's editor.
C25_UploadChangeDiscardsMoments ==
    [][session_state'.last_uploaded_file_id
           # session_state.last_uploaded_file_id
       => /\ session_state'.pending_new_moment = <<>>
          /\ session_state'.delete_moments = {}
          /\ session_state'.edit_rows = <<>>
          /\ session_state'.key_moments.isNone]_vars

\* C26: a commit attempt rejected for an empty result changes nothing of the
\* editable state: key_moments, the pending additions and the delete
\* selection are after the attempt what they were before it.
\* Refuted: the handler deletes pending_new_moment before it looks at the
\* result, so the moments the user added are gone after the attempt.
C26_RejectedCommitChangesNothing ==
    [][apply_message' = "error_no_moments"
       => /\ session_state'.key_moments = session_state.key_moments
          /\ session_state'.pending_new_moment
                 = session_state.pending_new_moment
          /\ session_state'.delete_moments = session_state.delete_moments
      ]_vars

\* C27: between any two script runs viewing_image is None or an index of the
\* current extracted_frames (0 <= viewing_image < len(extracted_frames)):
\* View Full Size, Previous, Next, Close Viewer, a new upload, a commit and
\* every other interaction leave it so.
C27_ViewingImageValid ==
    \/ session_state.viewing_image = NoIndex
    \/ /\ ~session_state.extracted_frames.isNone
       /\ 0 <= session_state.viewing_image
       /\ session_state.viewing_image
              < Len(session_state.extracted_frames.val)

\* The viewer shows the second of two frames.
C27_Witness ==
    /\ ViewerShown(session_state)
    /\ Len(session_state.extracted_frames.val) = 2
    /\ session_state.viewing_image = 1

\* C28: a commit whose every extraction fails stores the empty frame list and
\* leaves the session in the editing stage: the editor is shown again, over
\* key_moments equal to the sorted list of the commit, with no document; and
\* as long as no non-empty frame list is held there is no document, for
\* Step 4 with its Generate button is rendered for a non-empty list only.
C28_AllFailedBatchBackToEditing ==
    [][/\ (/\ apply_message' = "success_extracted"
           /\ session_state'.extracted_frames.val = <<>>) =>
              /\ session_state'.extracted_frames = SomeList(<<>>)
              /\ EditorShown(session_state')
              /\ session_state'.key_moments
                     = SomeList(SortedByTimestamp(
                                    show_moment_editor(session_state)).val)
              /\ session_state'.pending_new_moment = <<>>
              /\ session_state'.word_doc_bytes.isNone
       /\ ~Truthy(session_state'.extracted_frames) =>
              /\ session_state'.word_doc_bytes.isNone
              /\ session_state'.viewing_image = NoIndex
       /\ ~Truthy(session_state.extracted_frames) =>
              session_state'.word_doc_bytes.isNone
      ]_vars

\* Two moments were committed and neither extraction gave a frame.
C28_Witness ==
    /\ apply_message = "success_extracted"
    /\ session_state.extracted_frames = SomeList(<<>>)
    /\ Len(session_state.key_moments.val) = 2
    /\ EditorShown(session_state)
    /\ session_state.word_doc_bytes.isNone

-----------------------------------------------------------------------------
(* Properties of the sort of a commit (SpecSort) *)

PositionIn(seq, x) == CHOOSE k \in 1..Len(seq) : seq[k] = x

\* C21: the commit changes the order only: the sorted list is a permutation
\* of the editor's rows (as many moments, each with its fields as edited),
\* moments of equal numeric time are all kept, and they stand in the order
\* they had in the editor.
\* Refuted: with a nan key among seven rows, two moments of the same time
\* change places.
C21_CommitOnlyReorders ==
    sort_pc = "returned" =>
        /\ Len(sort_result) = Len(sort_moments)
        /\ Range(sort_result) = Range(sort_moments)
        /\ \A i, j \in 1..Len(sort_moments) :
               (/\ i < j
                /\ TimeOf(sort_moments[i]).kind = "num"
                /\ TimeOf(sort_moments[i]) = TimeOf(sort_moments[j]))
               => PositionIn(sort_result, sort_moments[i])
                      < PositionIn(sort_result, sort_moments[j])

=============================================================================
